---------------------------- MODULE Spec2Model ----------------------------
(***************************************************************************)
(* The dlint plugin host: the JavaScript side of the lint runtime.  The    *)
(* embedding host evaluates one host script, calls its init function with  *)
(* the list of plugin module paths, and calls its request function once    *)
(* per analysed file.  The scripts keep two module-level objects,          *)
(* loadedPlugins and context; diagnostics leave the script through the     *)
(* op_add_diagnostic op.                                                   *)
(*                                                                         *)
(* The source tree holds five snapshots of the host script; the variable   *)
(* `script` says which one the runtime evaluated:                          *)
(*   "plugin_host"     examples/dlint/runtime/plugin_host.js, lines 1-40   *)
(*   "plugin_host_a"   unnamed/part_000, lines 1-35                        *)
(*   "plugin_host_b"   unnamed/part_000, lines 36-67                       *)
(*   "plugin_server"   examples/dlint/runtime/plugin_host.js, lines 41-70  *)
(*   "plugin_server_a" unnamed/part_001                                    *)
(* The init function is the same text in all five.                         *)
(***************************************************************************)
EXTENDS Integers, Sequences, FiniteSets, TLC

\* ------------------------------------------------------------------ bounds
\* The most calls of the init function in one behaviour.
MaxCalls == 2
\* The most plugin paths supplied to the init function, over all its calls.
MaxPlugins == 2

\* --------------------------------------------------------------- constants
\* The literal span of plugin_host.js:34 (and part_000:29, plugin_host.js:65).
LiteralStart == 100
LiteralEnd == 200

\* ------------------------------------------------------------------ values
\* JavaScript's undefined, for a span: a span is <<start, end>>, undefined is
\* the empty tuple.
Undefined == << >>

\* JavaScript's null (the `code` argument of addDiagnostic).
Null == "null"

\* `const context = {}`: an object with no property.
EmptyObject == [k \in {} |-> ""]

HostScripts == {"plugin_host", "plugin_host_a", "plugin_host_b"}
ServerScripts == {"plugin_server", "plugin_server_a"}
Scripts == HostScripts \cup ServerScripts

\* The plugin modules the init function may be asked to import.  "plugin1" is
\* examples/dlint/plugins/plugin1.js; the others are the shapes a factory's
\* result can take: visitors for two node kinds, a name and nothing else, an
\* empty name, and a factory that throws.
PluginPaths == {"plugin1", "pluginX", "bare", "noname", "thrower"}

\* plugin1.js: the object its factory returns.  onEnd and visitor are
\* functions in the source; the model keeps whether onEnd is there and the
\* node kinds the visitor has a callback for.
plugin == [name |-> "example_plugin1", onEnd |-> TRUE, visitor |-> {"Program"}]

\* pluginMod.default({ context }) throws.
FactoryThrows(path) == path = "thrower"

\* pluginMod.default({ context }): the object the factory of `path` returns.
Factory(path) ==
    CASE path = "plugin1" -> plugin
      [] path = "pluginX" ->
            [name |-> "pluginX", onEnd |-> FALSE, visitor |-> {"Program", "CallExpr"}]
      [] path = "bare" -> [name |-> "bare", onEnd |-> FALSE, visitor |-> {}]
      [] path = "noname" -> [name |-> "", onEnd |-> TRUE, visitor |-> {"Program"}]

\* The files the host hands to the request function: what getCtx returns.
Filenames == {"a.ts", "b.ts"}

CallExpr == [kind |-> "CallExpr", span |-> <<10, 20>>, body |-> << >>]
ProgramCall == [kind |-> "Program", span |-> <<0, 50>>, body |-> <<CallExpr>>]
ProgramWide == [kind |-> "Program", span |-> <<100, 200>>, body |-> << >>]
ProgramNoSpan == [kind |-> "Program", span |-> Undefined, body |-> << >>]
Asts == {ProgramCall, ProgramWide, ProgramNoSpan}

\* ------------------------------------------------------------------- state
VARIABLES
    script,         \* the host script the runtime evaluated
    loadedPlugins,  \* const loadedPlugins = []
    context,        \* const context = {}
    calls,          \* the calls of the init function, each an async activation
    invoked,        \* the plugin functions called so far, in call order: which
                    \* function, of the plugin at which place of which call's list
    ctx,            \* what getCtx returned to the last request: <<filename, ast>>
    sink            \* the diagnostics op_add_diagnostic received for that file

vars == <<script, loadedPlugins, context, calls, invoked, ctx, sink>>

\* The number of plugin paths supplied so far.
RECURSIVE Supplied(_)
Supplied(cs) == IF cs = << >> THEN 0 ELSE Len(Head(cs).plugins) + Supplied(Tail(cs))

PluginLists(n) == UNION {[1..k -> PluginPaths] : k \in 0..n}

Init ==
    /\ script \in Scripts
    /\ loadedPlugins = << >>
    /\ context = EmptyObject
    /\ calls = << >>
    /\ invoked = << >>
    /\ ctx = << >>
    /\ sink = << >>

\* -------------------------------------------------------------------- init
\* Mutant of push: the instance goes to the front of the list (unshift).
push_unshift(list, pluginInstance) == <<pluginInstance>> \o list

\* Mutant of push: the instance is pushed twice.
push_twice(list, pluginInstance) == Append(Append(list, pluginInstance), pluginInstance)

\* loadedPlugins.push(pluginInstance)
push(list, pluginInstance) == Append(list, pluginInstance)

\* hostInit({ plugins }) is called: the activation runs to its first await.
\* With no plugin the loop body never runs and the promise is fulfilled.
hostInit(plugins) ==
    /\ Len(calls) < MaxCalls
    /\ Supplied(calls) + Len(plugins) <= MaxPlugins
    /\ calls' = Append(calls,
                       [plugins |-> plugins, i |-> 1,
                        status |-> IF plugins = << >> THEN "fulfilled" ELSE "awaiting"])
    /\ UNCHANGED <<script, loadedPlugins, context, invoked, ctx, sink>>

\* The import of call c's i-th plugin resolves and the activation resumes:
\* the factory is called with { context }; if it throws, the exception leaves
\* the loop and rejects the promise of the call; otherwise the instance is
\* pushed and the loop goes on to the next import, or ends.
hostInitResume(c) ==
    /\ calls[c].status = "awaiting"
    /\ LET path == calls[c].plugins[calls[c].i]
           last == calls[c].i = Len(calls[c].plugins)
       IN  /\ invoked' = Append(invoked,
                               [fn |-> "factory", call |-> c, idx |-> calls[c].i])
           /\ IF FactoryThrows(path)
              THEN /\ calls' = [calls EXCEPT ![c].status = "rejected"]
                   /\ UNCHANGED loadedPlugins
              ELSE /\ loadedPlugins' =
                          push(loadedPlugins,
                               [path |-> path, call |-> c, idx |-> calls[c].i,
                                name |-> Factory(path).name,
                                onEnd |-> Factory(path).onEnd,
                                visitor |-> Factory(path).visitor])
                   /\ calls' = [calls EXCEPT ![c].i = IF last THEN @ ELSE @ + 1,
                                             ![c].status =
                                                 IF last THEN "fulfilled" ELSE "awaiting"]
    /\ UNCHANGED <<script, context, ctx, sink>>

\* ----------------------------------------------------------------- request
\* Deno.core.ops.op_add_diagnostic: the host's sink appends the diagnostic.
addDiagnostic(s, pluginName, message, code, start, end) ==
    Append(s, [pluginName |-> pluginName, message |-> message, code |-> code,
               start |-> start, end |-> end])

\* `if (ast.span)`: an object is truthy, undefined is not.
HasSpan(ast) == ast.span # Undefined

\* The span arguments of the addDiagnostic call of each host script.
SpanArgs(ast) ==
    IF script = "plugin_host_b" THEN ast.span ELSE <<LiteralStart, LiteralEnd>>

\* Mutant of hostRequestPlugin: the `if (ast.span)` test is missing.
hostRequestPlugin_always(s, p, ast) ==
    addDiagnostic(s, p.name, "Example Plugin diagnostics", Null,
                  LiteralStart, LiteralEnd)

\* The body of hostRequest's loop, for one plugin.
hostRequestPlugin(s, p, ast) ==
    IF HasSpan(ast)
    THEN addDiagnostic(s, p.name, "Example Plugin diagnostics", Null,
                       SpanArgs(ast)[1], SpanArgs(ast)[2])
    ELSE s

\* `for (const plugin of loadedPlugins)` of hostRequest, from the first on.
RECURSIVE hostRequestLoop(_, _, _)
hostRequestLoop(s, ps, ast) ==
    IF ps = << >> THEN s
    ELSE hostRequestLoop(hostRequestPlugin(s, Head(ps), ast), Tail(ps), ast)

\* Mutant of hostRequest: after the loop the host adds a diagnostic of its own.
hostRequest_summary ==
    /\ script \in HostScripts
    /\ \E filename \in Filenames, ast \in Asts :
          /\ ctx' = <<filename, ast>>
          /\ sink' = addDiagnostic(hostRequestLoop(<< >>, loadedPlugins, ast),
                                   "plugin_host", "done", Null, 0, 0)
    /\ UNCHANGED <<script, loadedPlugins, context, calls, invoked>>

\* Mutant of hostRequest: the loop adds to the diagnostics of the file before.
hostRequest_accumulate ==
    /\ script \in HostScripts
    /\ \E filename \in Filenames, ast \in Asts :
          /\ ctx' = <<filename, ast>>
          /\ sink' = hostRequestLoop(sink, loadedPlugins, ast)
    /\ UNCHANGED <<script, loadedPlugins, context, calls, invoked>>

\* hostRequest(): reads the file's AST from the host and runs the loop to its
\* end; nothing in it suspends.  The host hands each file a sink of its own.
hostRequest ==
    /\ script \in HostScripts
    /\ \E filename \in Filenames, ast \in Asts :
          /\ ctx' = <<filename, ast>>
          /\ sink' = hostRequestLoop(<< >>, loadedPlugins, ast)
    /\ UNCHANGED <<script, loadedPlugins, context, calls, invoked>>

\* The body of serverRequest's loop, for one plugin: plugin_host.js:63-66 adds
\* a diagnostic whatever the AST; part_001:18-20 only prints.
serverRequestPlugin(s, p) ==
    IF script = "plugin_server"
    THEN addDiagnostic(s, p.name, "Example Plugin diagnostics", Null,
                       LiteralStart, LiteralEnd)
    ELSE s

\* `for (const plugin of loadedPlugins)` of serverRequest.
RECURSIVE serverRequestLoop(_, _)
serverRequestLoop(s, ps) ==
    IF ps = << >> THEN s
    ELSE serverRequestLoop(serverRequestPlugin(s, Head(ps)), Tail(ps))

\* serverRequest(): as hostRequest, for the two server scripts.
serverRequest ==
    /\ script \in ServerScripts
    /\ \E filename \in Filenames, ast \in Asts :
          /\ ctx' = <<filename, ast>>
          /\ sink' = serverRequestLoop(<< >>, loadedPlugins)
    /\ UNCHANGED <<script, loadedPlugins, context, calls, invoked>>

Next ==
    \/ \E plugins \in PluginLists(MaxPlugins) : hostInit(plugins)
    \/ \E c \in DOMAIN calls : hostInitResume(c)
    \/ hostRequest
    \/ serverRequest

Spec == Init /\ [][Next]_vars

\* ================================================================== claims
Settled(c) == calls[c].status \in {"fulfilled", "rejected"}
Loading == \E c \in DOMAIN calls : calls[c].status = "awaiting"
IsRequest == hostRequest \/ serverRequest

C2_InitFailureIsolated ==
    \A c \in DOMAIN calls :
        Settled(c) =>
            \A k \in DOMAIN calls[c].plugins :
                ~FactoryThrows(calls[c].plugins[k]) =>
                    \E i \in DOMAIN loadedPlugins :
                        loadedPlugins[i].call = c /\ loadedPlugins[i].idx = k

\* C3: no request begins while a call of the init function is suspended on
\* an import.
C3_NoRunWhileLoading == [][IsRequest => ~Loading]_vars

\* C4: with the one plugin whose Program and CallExpr visitors each emit a
\* diagnostic registered, a request for Program{span [0,50], body
\* [CallExpr{span [10,20]}]} leaves exactly two diagnostics of that plugin in
\* the sink, the first with span [0,50], the second with span [10,20].
C4_PreOrderDispatch ==
    [][(/\ hostRequest
        /\ ctx'[2] = ProgramCall
        /\ Len(loadedPlugins) = 1
        /\ loadedPlugins[1].path = "pluginX")
          => /\ Len(sink') = 2
             /\ sink'[1].pluginName = "pluginX"
             /\ <<sink'[1].start, sink'[1].end>> = <<0, 50>>
             /\ sink'[2].pluginName = "pluginX"
             /\ <<sink'[2].start, sink'[2].end>> = <<10, 20>>]_vars

\* The places (call, idx) of the registered plugins that have an onEnd.
RECURSIVE OnEndPlaces(_)
OnEndPlaces(ps) ==
    IF ps = << >> THEN << >>
    ELSE (IF Head(ps).onEnd THEN <<[call |-> Head(ps).call, idx |-> Head(ps).idx]>>
          ELSE << >>) \o OnEndPlaces(Tail(ps))

\* The places of the onEnd calls among the entries of a call log.
RECURSIVE OnEndCalls(_)
OnEndCalls(log) ==
    IF log = << >> THEN << >>
    ELSE (IF Head(log).fn = "onEnd"
          THEN <<[call |-> Head(log).call, idx |-> Head(log).idx]>>
          ELSE << >>) \o OnEndCalls(Tail(log))

\* C5: a request calls the onEnd of every registered plugin that has one,
\* exactly once, in registration order: the onEnd calls the request adds to
\* the call log are those plugins, in loadedPlugins order.
C5_OnEndOncePerFile ==
    [][IsRequest =>
         /\ Len(invoked') >= Len(invoked)
         /\ OnEndCalls(SubSeq(invoked', Len(invoked) + 1, Len(invoked')))
                = OnEndPlaces(loadedPlugins)]_vars

\* C6: every diagnostic of a request of plugin_host.js has a span inside, or
\* equal to, the span of the AST node it was emitted for (the root, whose span
\* hostRequest tests).
C6_SpanWithinNode ==
    (script = "plugin_host" /\ ctx # << >>) =>
        \A k \in DOMAIN sink :
            /\ HasSpan(ctx[2])
            /\ ctx[2].span[1] <= sink[k].start
            /\ sink[k].start <= sink[k].end
            /\ sink[k].end <= ctx[2].span[2]

\* C7: once a request has run, context.filename is the name of the file that
\* request analysed.
C7_FilenameSet ==
    ctx # << >> => ("filename" \in DOMAIN context /\ context["filename"] = ctx[1])

\* How often the factory of the plugin at place k of call c was called.
RECURSIVE FactoryCalls(_, _, _)
FactoryCalls(log, c, k) ==
    IF log = << >> THEN 0
    ELSE (IF Head(log).fn = "factory" /\ Head(log).call = c /\ Head(log).idx = k
          THEN 1 ELSE 0) + FactoryCalls(Tail(log), c, k)

\* How often the factory of the module `path` was called, over all calls.
RECURSIVE FactoryCallsOf(_, _)
FactoryCallsOf(log, path) ==
    IF log = << >> THEN 0
    ELSE (IF Head(log).fn = "factory"
             /\ calls[Head(log).call].plugins[Head(log).idx] = path
          THEN 1 ELSE 0) + FactoryCallsOf(Tail(log), path)

\* C8 as stated: no plugin module's factory is called a second time, and no
\* module is registered twice, whatever init and request calls are made.
C8_FactoryOncePerSession ==
    /\ \A path \in PluginPaths : FactoryCallsOf(invoked, path) <= 1
    /\ \A i, j \in DOMAIN loadedPlugins :
          i # j => loadedPlugins[i].path # loadedPlugins[j].path

\* The import of the plugin at place k of call c has resolved.
Resumed(c, k) == k < calls[c].i \/ (k = calls[c].i /\ Settled(c))

\* C8, amended: the factory is called exactly once for each supplied path
\* whose import has resolved and never for another (so a path supplied twice
\* is instantiated, and registered, twice); each supplied place is registered
\* at most once, as the object its factory returned; and a request calls no
\* factory and leaves loadedPlugins as it was.
C8_FactoryOncePerSuppliedPath ==
    /\ [](/\ \A c \in DOMAIN calls : \A k \in DOMAIN calls[c].plugins :
                FactoryCalls(invoked, c, k) = IF Resumed(c, k) THEN 1 ELSE 0
          /\ \A n \in DOMAIN invoked :
                /\ invoked[n].fn = "factory"
                /\ invoked[n].call \in DOMAIN calls
                /\ invoked[n].idx \in DOMAIN calls[invoked[n].call].plugins
          /\ \A i, j \in DOMAIN loadedPlugins :
                i # j => <<loadedPlugins[i].call, loadedPlugins[i].idx>>
                           # <<loadedPlugins[j].call, loadedPlugins[j].idx>>
          /\ \A i \in DOMAIN loadedPlugins :
                /\ Resumed(loadedPlugins[i].call, loadedPlugins[i].idx)
                /\ loadedPlugins[i].name = Factory(loadedPlugins[i].path).name
                /\ loadedPlugins[i].onEnd = Factory(loadedPlugins[i].path).onEnd
                /\ loadedPlugins[i].visitor = Factory(loadedPlugins[i].path).visitor)
    /\ [][IsRequest => UNCHANGED <<loadedPlugins, invoked>>]_vars

\* C8's case: the same path was supplied twice, both imports resolved, the
\* module is registered twice, and a request has run over both instances.
C8_Witness ==
    /\ Len(loadedPlugins) = 2
    /\ loadedPlugins[1].path = loadedPlugins[2].path
    /\ Len(invoked) = 2
    /\ \A c \in DOMAIN calls : Settled(c)
    /\ Len(sink) = 2

\* C9: no registered plugin has an empty name (a plugin whose factory returns
\* an object without a name is rejected, not registered).
C9_NamelessRejected ==
    \A i \in DOMAIN loadedPlugins : loadedPlugins[i].name # ""

\* C10: no diagnostic in the sink carries the name of a registered plugin that
\* has neither a visitor callback nor an onEnd.
C10_BarePluginSilent ==
    \A i \in DOMAIN loadedPlugins :
        (loadedPlugins[i].visitor = {} /\ ~loadedPlugins[i].onEnd) =>
            \A k \in DOMAIN sink : sink[k].pluginName # loadedPlugins[i].name

\* C11: with no plugin registered, the sink of a request is empty, whatever
\* the AST (loadedPlugins only grows, so none was registered when the request
\* ran either).
C11_NoPluginsNoDiagnostics ==
    loadedPlugins = << >> => sink = << >>

\* C11's case: a request of plugin_host.js ran for an AST with a span while no
\* plugin was registered, and left the sink empty.
C11_Witness ==
    /\ script = "plugin_host"
    /\ loadedPlugins = << >>
    /\ ctx # << >>
    /\ HasSpan(ctx[2])
    /\ sink = << >>

\* C11's other case: the same for an AST whose root has no span.
C11_WitnessNoSpan ==
    /\ script = "plugin_host"
    /\ loadedPlugins = << >>
    /\ ctx # << >>
    /\ ~HasSpan(ctx[2])
    /\ sink = << >>

\* C12: the diagnostics of two distinct registered plugins are told apart by
\* what they carry, also when the two share a name: no two diagnostics in the
\* sink (each emitted for another plugin instance) are equal.
C12_SameNameDistinguishable ==
    \A k, l \in DOMAIN sink : k # l => sink[k] # sink[l]

C15_OneDiagnosticPerPlugin ==
    [][hostRequest =>
         IF HasSpan(ctx'[2])
         THEN /\ Len(sink') = Len(loadedPlugins)
              /\ \A k \in DOMAIN loadedPlugins :
                    sink'[k].pluginName = loadedPlugins[k].name
         ELSE sink' = << >>]_vars

\* C15's case: hostRequest ran over two loaded plugins for an AST with a
\* span and left one diagnostic for each.
C15_Witness ==
    /\ script \in HostScripts
    /\ Len(loadedPlugins) = 2
    /\ \A c \in DOMAIN calls : Settled(c)
    /\ ctx # << >>
    /\ HasSpan(ctx[2])
    /\ Len(sink) = 2
    /\ sink[1].pluginName = loadedPlugins[1].name
    /\ sink[2].pluginName = loadedPlugins[2].name

\* s is t or a beginning of t.
IsPrefix(s, t) == Len(s) <= Len(t) /\ SubSeq(t, 1, Len(s)) = s

\* The places of the factory calls in a call log that returned an instance,
\* in call order.
RECURSIVE Completed(_)
Completed(log) ==
    IF log = << >> THEN << >>
    ELSE (IF Head(log).fn = "factory"
             /\ ~FactoryThrows(calls[Head(log).call].plugins[Head(log).idx])
          THEN <<[call |-> Head(log).call, idx |-> Head(log).idx]>>
          ELSE << >>) \o Completed(Tail(log))

\* The places (call, idx) of the registered plugins, in list order.
Places(ps) == [n \in DOMAIN ps |-> [call |-> ps[n].call, idx |-> ps[n].idx]]

\* C16 as stated: loadedPlugins holds the instances in call order, and within
\* a call in supply order.
C16_CallAndSupplyOrder ==
    \A i, j \in DOMAIN loadedPlugins :
        i < j =>
            \/ loadedPlugins[i].call < loadedPlugins[j].call
            \/ /\ loadedPlugins[i].call = loadedPlugins[j].call
               /\ loadedPlugins[i].idx < loadedPlugins[j].idx

\* C16, amended: loadedPlugins holds the instances of the factory calls that
\* returned, in the order those calls were made (within one call of hostInit
\* the supply order, across calls the order their imports resolved); every
\* step leaves the list as it was or appends to it; a request leaves
\* loadedPlugins and context unchanged.
C16_AppendOnly ==
    /\ [](/\ Places(loadedPlugins) = Completed(invoked)
          /\ \A i, j \in DOMAIN loadedPlugins :
                (i < j /\ loadedPlugins[i].call = loadedPlugins[j].call)
                    => loadedPlugins[i].idx < loadedPlugins[j].idx)
    /\ [][/\ IsPrefix(loadedPlugins, loadedPlugins')
          /\ (IsRequest => UNCHANGED <<loadedPlugins, context>>)]_vars

\* C16's case: two calls of hostInit overlapped, the import of the second
\* resolved first, and a request has run over the list since.
C16_Witness ==
    /\ Len(loadedPlugins) = 2
    /\ loadedPlugins[1].call = 2
    /\ loadedPlugins[2].call = 1
    /\ Len(sink) = 2

=============================================================================
